---- MODULE Spec2Model ----
(***************************************************************************)
(* Model of axlearn/common/compiler_options.py: the TPU instance-type      *)
(* parser (infer_tpu_type, infer_tpu_version), the XLA option resolver     *)
(* (default_xla_options) and the flag serializer (xla_flags_from_options). *)
(*                                                                         *)
(* Instance types are sequences of one-character strings, so that the      *)
(* regular expression, str.replace and str.rsplit are computed character   *)
(* by character.  Flag names and flag values are TLA+ strings.  A call     *)
(* either returns ([kind |-> "ok", value |-> ...]) or raises               *)
(* ([kind |-> <exception class>, value |-> <exception argument>]).         *)
(***************************************************************************)
EXTENDS Integers, Sequences, FiniteSets, TLC

VARIABLES call, instance_type, num_slices, backend, xla_options, pc, version, result

vars == <<call, instance_type, num_slices, backend, xla_options, pc, version, result>>

(***************************************************************************)
(* Bounds of the explored inputs.                                          *)
(***************************************************************************)
MaxPieces == 4
MaxSlices == 2
MaxPairs == 3

(***************************************************************************)
(* Text helpers.                                                           *)
(***************************************************************************)
Digits == {"0", "1", "2", "3", "4", "5", "6", "7", "8", "9"}

TpuPrefix == <<"t", "p", "u", "-">>

Drop(s, n) == SubSeq(s, n + 1, Len(s))

StartsWith(s, p) == Len(s) >= Len(p) /\ SubSeq(s, 1, Len(p)) = p

Ok(v) == [kind |-> "ok", value |-> v]

\* raise cls(...): arg is the value the exception is built from (the backend,
\* the instance type or the version named in its message)
Raise(cls, arg) == [kind |-> cls, value |-> arg]

\* MatchBody without the leading "v": r".+-\d+"
MatchBody_any_token(body) ==
    /\ Len(body) >= 3
    /\ \E j \in 2..(Len(body) - 1) :
          /\ body[j] = "-"
          /\ \A i \in 1..(j - 1) : body[i] # "\n"
          /\ \A i \in (j + 1)..Len(body) : body[i] \in Digits

\* re.fullmatch(r"v.+-\d+", body): "v", one or more characters other than a
\* newline, a hyphen, one or more digits up to the end of the string.
MatchBody(body) ==
    /\ Len(body) >= 4
    /\ body[1] = "v"
    /\ \E j \in 3..(Len(body) - 1) :
          /\ body[j] = "-"
          /\ \A i \in 2..(j - 1) : body[i] # "\n"
          /\ \A i \in (j + 1)..Len(body) : body[i] \in Digits

\* re.fullmatch(r"(tpu-)?v.+-\d+", s): the group (tpu-)? is taken or skipped.
FullMatch(s) ==
    \/ MatchBody(s)
    \/ StartsWith(s, TpuPrefix) /\ MatchBody(Drop(s, Len(TpuPrefix)))

\* str.replace(old, new): every non-overlapping occurrence, left to right.
RECURSIVE Replace(_, _, _)
Replace(s, old, new) ==
    IF Len(s) < Len(old) THEN s
    ELSE IF StartsWith(s, old) THEN new \o Replace(Drop(s, Len(old)), old, new)
    ELSE <<Head(s)>> \o Replace(Tail(s), old, new)

\* str.split("-", 1)[0] in place of rsplit: the part before the first hyphen.
SplitFirst(s) ==
    LET hy == {i \in 1..Len(s) : s[i] = "-"}
    IN  IF hy = {} THEN s
        ELSE SubSeq(s, 1, (CHOOSE i \in hy : \A k \in hy : i <= k) - 1)

\* str.rsplit("-", 1)[0]: the part before the last hyphen, the whole string
\* when it has no hyphen.
RSplitFirst(s) ==
    LET hy == {i \in 1..Len(s) : s[i] = "-"}
    IN  IF hy = {} THEN s
        ELSE SubSeq(s, 1, (CHOOSE i \in hy : \A k \in hy : k <= i) - 1)

_TPU_VERSIONS ==
    << <<"v", "3">>, <<"v", "4">>,
       <<"v", "5", "l", "i", "t", "e", "p", "o", "d">>,
       <<"v", "5", "p">>, <<"v", "6", "e">> >>

VersionSet == {_TPU_VERSIONS[i] : i \in 1..Len(_TPU_VERSIONS)}

\* infer_tpu_type that validates and returns its argument as it is.
infer_tpu_type_no_strip(s) ==
    IF ~(s # <<>> /\ FullMatch(s)) THEN Raise("NotTpuError", s)
    ELSE Ok(s)

infer_tpu_type(s) ==
    IF ~(s # <<>> /\ FullMatch(s)) THEN Raise("NotTpuError", s)
    ELSE Ok(Replace(s, TpuPrefix, <<>>))

infer_tpu_version(s) ==
    LET t == infer_tpu_type(s) IN
    IF t.kind # "ok" THEN t
    ELSE LET tpu_version == RSplitFirst(t.value) IN
         IF tpu_version \notin VersionSet THEN Raise("ValueError", tpu_version)
         ELSE Ok(tpu_version)


(***************************************************************************)
(* Option mappings: a dict is the sequence of its <<key, value>> pairs in  *)
(* insertion order; a value is a bool, a str or an int.                    *)
(***************************************************************************)
BoolV(b) == [t |-> "bool", b |-> b, s |-> "", i |-> 0]

StrV(s) == [t |-> "str", b |-> FALSE, s |-> s, i |-> 0]

IntV(i) == [t |-> "int", b |-> FALSE, s |-> "", i |-> i]

KeysOf(d) == {d[n][1] : n \in 1..Len(d)}

\* d[k] = v: an existing key keeps its position and takes the new value, a
\* new key is appended.
SetItem(d, k, v) ==
    IF k \in KeysOf(d)
    THEN [n \in 1..Len(d) |-> IF d[n][1] = k THEN <<k, v>> ELSE d[n]]
    ELSE Append(d, <<k, v>>)

\* dict.update(**overlay)
RECURSIVE Update(_, _)
Update(d, overlay) ==
    IF overlay = <<>> THEN d
    ELSE Update(SetItem(d, Head(overlay)[1], Head(overlay)[2]), Tail(overlay))

BaseOptions ==
    << <<"xla_tpu_spmd_rng_bit_generator_unsafe", BoolV(TRUE)>>,
       <<"xla_tpu_enable_latency_hiding_scheduler", StrV("true")>>,
       <<"xla_tpu_perform_spmd_cse_prevention", StrV("false")>> >>

\* A v4 overlay that also sets a key of the base overlay.
V4Options_overrides_base ==
    << <<"xla_enable_async_all_gather", StrV("true")>>,
       <<"xla_tpu_enable_latency_hiding_scheduler", StrV("true")>> >>

V4Options ==
    << <<"xla_enable_async_all_gather", StrV("true")>>,
       <<"xla_enable_async_collective_permute", StrV("true")>> >>

V6eOptions ==
    << <<"xla_tpu_scoped_vmem_limit_kib", StrV("98304")>>,
       <<"xla_tpu_enable_async_collective_fusion", StrV("true")>>,
       <<"xla_tpu_enable_async_collective_fusion_fuse_all_gather", StrV("true")>>,
       <<"xla_tpu_enable_async_collective_fusion_multiple_steps", StrV("true")>>,
       <<"xla_tpu_overlap_compute_collective_tc", StrV("true")>>,
       <<"xla_enable_async_all_gather", StrV("true")>>,
       <<"xla_tpu_enable_all_experimental_scheduler_features", StrV("true")>>,
       <<"xla_tpu_enable_scheduler_memory_pressure_tracking", StrV("ENABLED")>>,
       <<"xla_tpu_host_transfer_overlap_limit", IntV(24)>>,
       <<"xla_tpu_aggressive_opt_barrier_removal", StrV("ENABLED")>>,
       <<"xla_lhs_prioritize_async_depth_over_stall", StrV("ENABLED")>>,
       <<"xla_tpu_enable_ag_backward_pipelining", StrV("true")>>,
       <<"xla_should_allow_loop_variant_parameter_in_chain", StrV("ENABLED")>>,
       <<"xla_should_add_loop_invariant_op_in_chain", StrV("ENABLED")>>,
       <<"xla_max_concurrent_host_send_recv", IntV(100)>>,
       <<"xla_latency_hiding_scheduler_rerun", IntV(0)>> >>

MultiSliceOptions ==
    << <<"xla_tpu_enable_megascale_barrier", StrV("true")>>,
       <<"xla_tpu_enable_data_parallel_all_reduce_opt", StrV("true")>>,
       <<"xla_tpu_data_parallel_opt_different_sized_ops", StrV("true")>> >>

\* The v4 overlay applied to v3 as well.
ApplyV4_also_v3(options, v) ==
    IF v \in {<<"v", "3">>, <<"v", "4">>} THEN Update(options, V4Options) ELSE options

\* if version == "v4": options.update(...)
ApplyV4(options, v) ==
    IF v = <<"v", "4">> THEN Update(options, V4Options) ELSE options

\* if version == "v6e": options.update(...)
ApplyV6e(options, v) ==
    IF v = <<"v", "6", "e">> THEN Update(options, V6eOptions) ELSE options

\* num_slices >= 1 in place of num_slices > 1.
ApplyMultiSlice_ge1(options, n) ==
    IF n >= 1 THEN Update(options, MultiSliceOptions) ELSE options

\* if num_slices > 1: options.update(...)
ApplyMultiSlice(options, n) ==
    IF n > 1 THEN Update(options, MultiSliceOptions) ELSE options

\* The body after the version is known (lines 33-109).
ResolveOptions(v, n) ==
    ApplyMultiSlice(ApplyV6e(ApplyV4(BaseOptions, v), v), n)

\* version = infer_tpu_version(infer_tpu_type(instance_type)); an exception
\* of the inner call propagates.
VersionOf(it) ==
    LET t == infer_tpu_type(it) IN
    IF t.kind # "ok" THEN t ELSE infer_tpu_version(t.value)

\* default_xla_options that parses the instance type before it looks at
\* the backend.
default_xla_options_parse_first(it, n, be) ==
    LET v == VersionOf(it) IN
    IF v.kind # "ok" THEN v
    ELSE IF be # "tpu" THEN Raise("NotImplementedError", be)
    ELSE Ok(ResolveOptions(v.value, n))

default_xla_options(it, n, be) ==
    IF be # "tpu" THEN Raise("NotImplementedError", be)
    ELSE LET v == VersionOf(it) IN
         IF v.kind # "ok" THEN v
         ELSE Ok(ResolveOptions(v.value, n))

\* the local variable `version` when the call ends: unset (the empty
\* string here) when line 32 was not reached or raised
LocalVersion(it, be) ==
    IF be = "tpu" /\ VersionOf(it).kind = "ok" THEN VersionOf(it).value ELSE <<>>

(***************************************************************************)
(* Flag serializer.                                                        *)
(***************************************************************************)
DigitText == <<"0", "1", "2", "3", "4", "5", "6", "7", "8", "9">>

\* str(n) of a non-negative int
RECURSIVE NatText(_)
NatText(n) ==
    IF n < 10 THEN DigitText[n + 1]
    ELSE NatText(n \div 10) \o DigitText[(n % 10) + 1]

\* f"{v}" of a str or an int
Format(v) ==
    IF v.t = "str" THEN v.s
    ELSE IF v.i < 0 THEN "-" \o NatText(0 - v.i)
    ELSE NatText(v.i)

\* FlagToken without the isinstance branch: f"{True}" is "True".
FlagToken_str_bool(k, v) ==
    "--" \o k \o "=" \o
        (IF v.t = "bool" THEN (IF v.b THEN "True" ELSE "False") ELSE Format(v))

\* if isinstance(v, bool): v = "1" if v else "0"; then f"--{k}={v}"
FlagToken(k, v) ==
    LET w == IF v.t = "bool" THEN StrV(IF v.b THEN "1" ELSE "0") ELSE v
    IN  "--" \o k \o "=" \o Format(w)

\* sep.join(flags)
RECURSIVE Join(_, _)
Join(sep, flags) ==
    IF flags = <<>> THEN ""
    ELSE IF Len(flags) = 1 THEN flags[1]
    ELSE flags[1] \o sep \o Join(sep, Tail(flags))

\* the list `flags` when the loop over xla_options.items() ends
FlagList(options) == [n \in 1..Len(options) |-> FlagToken(options[n][1], options[n][2])]

xla_flags_from_options(options) == Ok(Join(" ", FlagList(options)))

(***************************************************************************)
(* The inputs explored.                                                    *)
(***************************************************************************)
Pieces ==
    { TpuPrefix, <<"-">>, <<"8">>, <<"v">> } \cup VersionSet

RECURSIVE Concat(_)
Concat(ps) == IF ps = <<>> THEN <<>> ELSE Head(ps) \o Concat(Tail(ps))

InstanceTypes ==
    {Concat(ps) : ps \in UNION {[1..n -> Pieces] : n \in 0..MaxPieces}}

SliceCounts == 0..MaxSlices

Backends == {"tpu", "gpu"}

FlagKeys == {"a", "b", "c"}

FlagValues ==
    {BoolV(TRUE), BoolV(FALSE), StrV("false"), StrV("ENABLED"), IntV(5), IntV(0), IntV(100),
     IntV(-3)}

\* the dicts of at most MaxPairs pairs (keys unique), and the dicts the
\* resolver returns
OptionMaps ==
    {d \in UNION {[1..n -> FlagKeys \X FlagValues] : n \in 0..MaxPairs} :
        \A a, b \in 1..Len(d) : d[a][1] = d[b][1] => a = b}
    \cup {ResolveOptions(v, n) : v \in VersionSet, n \in SliceCounts}

NoResult == [kind |-> "none", value |-> <<>>]

Init ==
    /\ pc = "call"
    /\ result = NoResult
    /\ version = <<>>
    /\ \/ /\ call \in {"infer_tpu_type", "infer_tpu_version"}
          /\ instance_type \in InstanceTypes
          /\ num_slices = 1 /\ backend = "tpu" /\ xla_options = <<>>
       \/ /\ call = "default_xla_options"
          /\ instance_type \in InstanceTypes
          /\ num_slices \in SliceCounts
          /\ backend \in Backends
          /\ xla_options = <<>>
       \/ /\ call = "xla_flags_from_options"
          /\ xla_options \in OptionMaps
          /\ instance_type = <<>> /\ num_slices = 1 /\ backend = "tpu"

Return(r) ==
    /\ pc' = "done"
    /\ result' = r
    /\ UNCHANGED <<call, instance_type, num_slices, backend, xla_options>>

InferTpuType ==
    /\ pc = "call" /\ call = "infer_tpu_type"
    /\ Return(infer_tpu_type(instance_type))
    /\ UNCHANGED version

InferTpuVersion ==
    /\ pc = "call" /\ call = "infer_tpu_version"
    /\ Return(infer_tpu_version(instance_type))
    /\ UNCHANGED version

DefaultXlaOptions ==
    /\ pc = "call" /\ call = "default_xla_options"
    /\ Return(default_xla_options(instance_type, num_slices, backend))
    /\ version' = LocalVersion(instance_type, backend)

XlaFlagsFromOptions ==
    /\ pc = "call" /\ call = "xla_flags_from_options"
    /\ Return(xla_flags_from_options(xla_options))
    /\ UNCHANGED version

Next == InferTpuType \/ InferTpuVersion \/ DefaultXlaOptions \/ XlaFlagsFromOptions

Spec == Init /\ [][Next]_vars

(***************************************************************************)
(* Vocabulary of the properties.                                           *)
(***************************************************************************)
Done(c) == pc = "done" /\ call = c

SameOutcome(a, b) == a.kind = b.kind /\ a.value = b.value

Pairs(d) == {d[n] : n \in 1..Len(d)}

V3 == <<"v", "3">>

V4 == <<"v", "4">>

V5litepod == <<"v", "5", "l", "i", "t", "e", "p", "o", "d">>

V5p == <<"v", "5", "p">>

V6e == <<"v", "6", "e">>

Enumeration == {V3, V4, V5litepod, V5p, V6e}

\* "<v>-8" and "tpu-<v>-8" for a version of the enumeration
PlainDescriptor(it) ==
    \E v \in Enumeration : it \in {v \o <<"-", "8">>, TpuPrefix \o v \o <<"-", "8">>}

BaseFlags ==
    { <<"xla_tpu_spmd_rng_bit_generator_unsafe", BoolV(TRUE)>>,
      <<"xla_tpu_enable_latency_hiding_scheduler", StrV("true")>>,
      <<"xla_tpu_perform_spmd_cse_prevention", StrV("false")>> }

V4Flags ==
    { <<"xla_enable_async_all_gather", StrV("true")>>,
      <<"xla_enable_async_collective_permute", StrV("true")>> }

MultiSliceFlags ==
    { <<"xla_tpu_enable_megascale_barrier", StrV("true")>>,
      <<"xla_tpu_enable_data_parallel_all_reduce_opt", StrV("true")>>,
      <<"xla_tpu_data_parallel_opt_different_sized_ops", StrV("true")>> }

MultiSliceKeys == {f[1] : f \in MultiSliceFlags}

\* the number of digits that end s
TrailingDigits(s) ==
    CHOOSE n \in 0..Len(s) :
        /\ \A i \in (Len(s) - n + 1)..Len(s) : s[i] \in Digits
        /\ n = Len(s) \/ s[Len(s) - n] \notin Digits

\* <token>-<digits> with a non-empty token
TokenDigits(b) ==
    LET n == TrailingDigits(b)
    IN  n >= 1 /\ Len(b) - n >= 2 /\ b[Len(b) - n] = "-"

\* v<one or more characters>-<digits>
VTokenDigits(b) ==
    LET n == TrailingDigits(b)
    IN  n >= 1 /\ Len(b) - n >= 3 /\ b[Len(b) - n] = "-" /\ b[1] = "v"

(***************************************************************************)
(* C1: default_xla_options with a backend other than "tpu" raises          *)
(* NotImplementedError(backend) for every instance type, valid or not, and *)
(* every num_slices; nothing is parsed and no mapping is returned.         *)
(***************************************************************************)
C1_UnsupportedBackend ==
    Done("default_xla_options") /\ backend # "tpu" =>
        /\ result.kind = "NotImplementedError"
        /\ result.value = backend
        /\ version = <<>>

C1_Witness ==
    /\ Done("default_xla_options") /\ backend = "gpu" /\ num_slices > 1
    /\ infer_tpu_type(instance_type).kind = "NotTpuError"
    /\ result.kind = "NotImplementedError"

(***************************************************************************)
(* C2: for backend "tpu" and num_slices <= 1, when the version parsed at   *)
(* line 32 is v3, v5litepod or v5p the result is exactly the 3 base flags; *)
(* when it is v4, the base flags and the 2 v4 flags; when it is v6e, the   *)
(* base flags and the v6e overlay.  No flag that only the v6e overlay has  *)
(* is in a v4 result, no multi-slice flag is in any of them, and the plain *)
(* descriptors of every version are resolved.                              *)
(***************************************************************************)
C2_SingleSliceOptions ==
    Done("default_xla_options") /\ backend = "tpu" /\ num_slices <= 1 =>
        /\ PlainDescriptor(instance_type) => version \in Enumeration
        /\ result.kind = "ok" <=> version \in Enumeration
        /\ version \in {V3, V5litepod, V5p} =>
              Pairs(result.value) = BaseFlags /\ Len(result.value) = 3
        /\ version = V4 =>
              /\ Pairs(result.value) = BaseFlags \cup V4Flags
              /\ Len(result.value) = 5
              /\ KeysOf(result.value) \cap (KeysOf(V6eOptions) \ {f[1] : f \in V4Flags}) = {}
        /\ version = V6e =>
              /\ Pairs(result.value) = BaseFlags \cup Pairs(V6eOptions)
              /\ Len(result.value) = 19
        /\ result.kind = "ok" => KeysOf(result.value) \cap MultiSliceKeys = {}

C2_Witness ==
    /\ Done("default_xla_options") /\ backend = "tpu" /\ num_slices = 1
    /\ instance_type = <<"v", "4", "-", "8">>
    /\ version = V4
    /\ Len(result.value) = 5

(***************************************************************************)
(* C3: for backend "tpu" and every instance type default_xla_options       *)
(* resolves (the plain descriptors of all five versions among them), the   *)
(* three multi-slice flags, each "true", are in the result if and only if  *)
(* num_slices > 1, and the other entries are those of num_slices = 1.      *)
(***************************************************************************)
C3_MultiSliceIff ==
    Done("default_xla_options") /\ backend = "tpu" =>
        /\ PlainDescriptor(instance_type) => result.kind = "ok"
        /\ result.kind = "ok" =>
              /\ \A f \in MultiSliceFlags :
                    /\ f[1] \in KeysOf(result.value) <=> num_slices > 1
                    /\ f[1] \in KeysOf(result.value) => f \in Pairs(result.value)
              /\ LET single == default_xla_options(instance_type, 1, backend)
                 IN  /\ single.kind = "ok"
                     /\ SelectSeq(result.value, LAMBDA f : f[1] \notin MultiSliceKeys)
                           = single.value

C3_Witness ==
    /\ Done("default_xla_options") /\ backend = "tpu" /\ num_slices = 2
    /\ instance_type = <<"v", "6", "e", "-", "8">>
    /\ result.kind = "ok"
    /\ MultiSliceFlags \subseteq Pairs(result.value)
    /\ Len(result.value) = 22

(***************************************************************************)
(* C4 (as claimed): for every string infer_tpu_type accepts, the result is *)
(* the input without one leading "tpu-" if it has one and the input itself *)
(* otherwise; no other occurrence of "tpu-" is altered.                    *)
(***************************************************************************)
C4_StripsLeadingPrefixOnly ==
    Done("infer_tpu_type") /\ result.kind = "ok" =>
        result.value = IF StartsWith(instance_type, TpuPrefix)
                       THEN Drop(instance_type, 4)
                       ELSE instance_type

(***************************************************************************)
(* C5 (as claimed): infer_tpu_type succeeds exactly on the non-empty       *)
(* strings (tpu-)?<anything>-<digits> with a non-empty token, and raises   *)
(* NotTpuError on every other string.                                      *)
(***************************************************************************)
C5_AcceptsAnyToken ==
    Done("infer_tpu_type") =>
        /\ result.kind \in {"ok", "NotTpuError"}
        /\ result.kind = "ok" <=>
              \/ TokenDigits(instance_type)
              \/ /\ StartsWith(instance_type, TpuPrefix)
                 /\ TokenDigits(Drop(instance_type, 4))

(***************************************************************************)
(* C5 (amended): infer_tpu_type succeeds exactly on the strings            *)
(* (tpu-)?v<one or more characters>-<digits>: an optional "tpu-" prefix,   *)
(* the letter v, at least one more character, a hyphen, and one or more    *)
(* digits up to the end; on every other string, the empty one included, it *)
(* raises NotTpuError carrying the string.                                 *)
(***************************************************************************)
C5_AcceptsVToken ==
    Done("infer_tpu_type") =>
        /\ result.kind \in {"ok", "NotTpuError"}
        /\ result.kind = "ok" <=>
              \/ VTokenDigits(instance_type)
              \/ /\ StartsWith(instance_type, TpuPrefix)
                 /\ VTokenDigits(Drop(instance_type, 4))
        /\ result.kind = "NotTpuError" => result.value = instance_type

C5_Witness ==
    /\ Done("infer_tpu_type")
    /\ instance_type = <<"8", "-", "8">>
    /\ result.kind = "NotTpuError"

(***************************************************************************)
(* C6: for every input that passes the shape validation, infer_tpu_version *)
(* returns the part of the normalized token before its last hyphen when    *)
(* that part is one of v3, v4, v5litepod, v5p, v6e, and otherwise raises   *)
(* a ValueError that is not NotTpuError.  Every version infer_tpu_version  *)
(* returns and every version default_xla_options branches on is in the     *)
(* enumeration.                                                            *)
(***************************************************************************)
C6_VersionInEnumeration ==
    /\ Done("infer_tpu_version") /\ infer_tpu_type(instance_type).kind = "ok" =>
          LET t == infer_tpu_type(instance_type).value
              last == {i \in 1..Len(t) : t[i] = "-" /\ \A k \in (i + 1)..Len(t) : t[k] # "-"}
          IN  /\ result.kind \in {"ok", "ValueError"}
              /\ last = {} => result.kind = "ValueError"
              /\ \A i \in last :
                    LET candidate == SubSeq(t, 1, i - 1)
                    IN  /\ candidate \in Enumeration => result = Ok(candidate)
                        /\ candidate \notin Enumeration =>
                              result = Raise("ValueError", candidate)
    /\ Done("infer_tpu_version") /\ result.kind = "ok" => result.value \in Enumeration
    /\ Done("default_xla_options") /\ result.kind = "ok" => version \in Enumeration

C6_Witness ==
    /\ Done("infer_tpu_version")
    /\ instance_type = <<"v", "4", "-", "-", "8">>
    /\ result = Raise("ValueError", <<"v", "4", "-">>)

(***************************************************************************)
(* C7: xla_flags_from_options returns the tokens "--<key>=<value>" of the  *)
(* pairs in the mapping's order, joined by exactly one space; True is      *)
(* rendered "1", False "0", a string or an integer as its own text; one    *)
(* token per pair, and the empty string for the empty mapping.             *)
(***************************************************************************)
ValueText(v) ==
    CASE v.t = "bool" -> (IF v.b THEN "1" ELSE "0")
      [] v.t = "str" -> v.s
      [] v.t = "int" /\ v.i = 0 -> "0"
      [] v.t = "int" /\ v.i = 5 -> "5"
      [] v.t = "int" /\ v.i = 24 -> "24"
      [] v.t = "int" /\ v.i = 100 -> "100"
      [] v.t = "int" /\ v.i = -3 -> "-3"

RECURSIVE FlagsUpTo(_, _)
FlagsUpTo(d, n) ==
    IF n = 0 THEN ""
    ELSE (IF n = 1 THEN "" ELSE FlagsUpTo(d, n - 1) \o " ")
            \o "--" \o d[n][1] \o "=" \o ValueText(d[n][2])

RECURSIVE TextLen(_, _)
TextLen(d, n) ==
    IF n = 0 THEN 0
    ELSE TextLen(d, n - 1) + 3 + Len(d[n][1]) + Len(ValueText(d[n][2]))

C7_FlagString ==
    Done("xla_flags_from_options") =>
        /\ result.kind = "ok"
        /\ result.value = FlagsUpTo(xla_options, Len(xla_options))
        /\ xla_options = <<>> => result.value = ""
        /\ xla_options # <<>> =>
              Len(result.value) = TextLen(xla_options, Len(xla_options))
                                     + Len(xla_options) - 1
        /\ xla_options = << <<"a", BoolV(TRUE)>>, <<"b", StrV("false")>>, <<"c", IntV(5)>> >>
              => result.value = "--a=1 --b=false --c=5"

C7_Witness ==
    /\ Done("xla_flags_from_options")
    /\ xla_options = << <<"a", BoolV(TRUE)>>, <<"b", StrV("false")>>, <<"c", IntV(5)>> >>
    /\ result.value = "--a=1 --b=false --c=5"

(***************************************************************************)
(* C8: when "tpu-<v>-<n>" and "<v>-<n>" are both valid descriptors,        *)
(* infer_tpu_type returns the same result for both, and so do              *)
(* infer_tpu_version and default_xla_options (same num_slices, backend     *)
(* "tpu").                                                                 *)
(***************************************************************************)
C8_PrefixIrrelevant ==
    Done("infer_tpu_type") /\ StartsWith(instance_type, TpuPrefix) =>
        LET bare == Drop(instance_type, 4)
        IN  result.kind = "ok" /\ infer_tpu_type(bare).kind = "ok" =>
              /\ SameOutcome(result, infer_tpu_type(bare))
              /\ SameOutcome(infer_tpu_version(instance_type), infer_tpu_version(bare))
              /\ \A n \in SliceCounts :
                    SameOutcome(default_xla_options(instance_type, n, "tpu"),
                                default_xla_options(bare, n, "tpu"))

C8_Witness ==
    /\ Done("infer_tpu_type")
    /\ instance_type = <<"t", "p", "u", "-", "v", "4", "-", "8">>
    /\ result = Ok(<<"v", "4", "-", "8">>)
    /\ infer_tpu_type(<<"v", "4", "-", "8">>) = result

(***************************************************************************)
(* C9 (as claimed): the key sets of the four overlays (base, v4, v6e,      *)
(* multi-slice) are pairwise disjoint: no flag name is in more than one    *)
(* overlay.                                                                *)
(***************************************************************************)
OverlayKeys ==
    <<KeysOf(BaseOptions), KeysOf(V4Options), KeysOf(V6eOptions), KeysOf(MultiSliceOptions)>>

C9_PairwiseDisjoint ==
    Done("default_xla_options") /\ result.kind = "ok" =>
        \A a, b \in 1..4 : a # b => OverlayKeys[a] \cap OverlayKeys[b] = {}

(***************************************************************************)
(* C9 (amended): the overlays one call applies (base; v4 or v6e by the     *)
(* version; multi-slice when num_slices > 1) have pairwise disjoint key    *)
(* sets, so every merge is a union with one entry per overlay key.  The    *)
(* only flag name in two overlays is xla_enable_async_all_gather, in the   *)
(* v4 and the v6e overlay, which no call applies together.                 *)
(***************************************************************************)
C9_AppliedDisjoint ==
    Done("default_xla_options") /\ result.kind = "ok" =>
        LET applied == {1} \cup (IF version = V4 THEN {2} ELSE {})
                           \cup (IF version = V6e THEN {3} ELSE {})
                           \cup (IF num_slices > 1 THEN {4} ELSE {})
        IN  /\ \A a, b \in applied : a # b => OverlayKeys[a] \cap OverlayKeys[b] = {}
            /\ KeysOf(result.value) = UNION {OverlayKeys[a] : a \in applied}
            /\ Len(result.value) =
                  3 + (IF 2 \in applied THEN 2 ELSE 0)
                    + (IF 3 \in applied THEN 16 ELSE 0)
                    + (IF 4 \in applied THEN 3 ELSE 0)
            /\ \A a, b \in 1..4 :
                  a < b /\ OverlayKeys[a] \cap OverlayKeys[b] # {} =>
                      /\ <<a, b>> = <<2, 3>>
                      /\ OverlayKeys[a] \cap OverlayKeys[b] = {"xla_enable_async_all_gather"}

C9_Witness ==
    /\ Done("default_xla_options") /\ version = V6e /\ num_slices = 2
    /\ Len(result.value) = 22
    /\ "xla_enable_async_all_gather" \in OverlayKeys[2] \cap KeysOf(result.value)

(***************************************************************************)
(* C10 (as claimed): for every string s that infer_tpu_type accepts,       *)
(* infer_tpu_type(infer_tpu_type(s)) succeeds and equals                   *)
(* infer_tpu_type(s), and infer_tpu_version(infer_tpu_type(s)) has the     *)
(* outcome of infer_tpu_version(s); in default_xla_options the second      *)
(* validation never raises NotTpuError for an instance type that passed    *)
(* the first.                                                              *)
(***************************************************************************)
C10_Idempotent ==
    /\ Done("infer_tpu_type") /\ result.kind = "ok" =>
          /\ SameOutcome(infer_tpu_type(result.value), result)
          /\ SameOutcome(infer_tpu_version(result.value), infer_tpu_version(instance_type))
    /\ Done("default_xla_options") /\ backend = "tpu"
          /\ infer_tpu_type(instance_type).kind = "ok" => result.kind # "NotTpuError"

====
